---- MODULE Spec2Model ----
(***************************************************************************)
(* A model of oklink_processor (src/src/main.rs): the pagination walk of   *)
(* fetch_pages, the raw-to-domain normalisation (process_inscription,      *)
(* process_pagination, process_response), and the CSV projection           *)
(* (to_csv_row, write_csv).                                                *)
(*                                                                         *)
(* Strings are TLA+ strings, read one character at a time with SubSeq.     *)
(* U256 and u64 values are little-endian sequences of 16-bit limbs (16     *)
(* limbs = 256 bits, 4 limbs = 64 bits), so that the widths of the Rust    *)
(* types are kept and no intermediate value leaves TLC's integer range.    *)
(***************************************************************************)
EXTENDS Integers, Sequences, FiniteSets, TLC

\* ------------------------------------------------------------------------
\* State
\* ------------------------------------------------------------------------

VARIABLES
    pc,           \* where main is
    wallet,       \* args.wallet
    page,         \* the page argument of fetch_pages
    inscriptions, \* the accumulator of main
    requests,     \* the requests sent so far, in order
    pages,        \* the first block of every response that was normalised
    lastResp,     \* the response read last
    err,          \* the error main returned
    file,         \* the records handed to the CSV writer
    arg,          \* the argument of a function checked on its own
    result,       \* what it returned
    csvRow        \* the CSV row of the result

vars == <<pc, wallet, page, inscriptions, requests, pages, lastResp, err,
          file, arg, result, csvRow>>

walkVars == <<pc, wallet, page, inscriptions, requests, pages, lastResp, err,
              file>>

\* ------------------------------------------------------------------------
\* Characters and digits
\* ------------------------------------------------------------------------

CharAt(s, i) == SubSeq(s, i, i)

DigitChars == "0123456789"

IsDigit(c) == \E d \in 0..9 : CharAt(DigitChars, d + 1) = c

\* b.wrapping_sub(b'0') for a digit byte
DigitOf(c) == CHOOSE d \in 0..9 : CharAt(DigitChars, d + 1) = c

DigitChar(d) == CharAt(DigitChars, d + 1)

\* ------------------------------------------------------------------------
\* Fixed-width unsigned integers as limbs
\* ------------------------------------------------------------------------

LimbBase == 2^16

\* Number of 16-bit limbs of U256 (ethereum_types::U256, 256 bits)
U256Limbs == 16

\* Number of 16-bit limbs of u64
U64Limbs == 4

Zero(n) == [i \in 1..n |-> 0]

IsZero(x) == \A i \in 1..Len(x) : x[i] = 0

\* x * m + c over the limbs of x, least significant first; the result has one
\* limb more than x: the last one is what overflows the width.
RECURSIVE MulAddFrom(_, _, _, _)
MulAddFrom(x, m, c, i) ==
    IF i > Len(x) THEN <<c>>
    ELSE LET t == x[i] * m + c
         IN  <<t % LimbBase>> \o MulAddFrom(x, m, t \div LimbBase, i + 1)

MulAdd(x, m, c) == MulAddFrom(x, m, c, 1)

\* x divided by the small number d, most significant limb first:
\* <<quotient limbs, remainder>>
RECURSIVE DivSmallFrom(_, _, _, _)
DivSmallFrom(x, d, i, rem) ==
    IF i = 0 THEN <<Zero(Len(x)), rem>>
    ELSE LET t    == rem * LimbBase + x[i]
             rest == DivSmallFrom(x, d, i - 1, t % d)
         IN  <<[rest[1] EXCEPT ![i] = t \div d], rest[2]>>

DivSmall(x, d) == DivSmallFrom(x, d, Len(x), 0)

\* ------------------------------------------------------------------------
\* Result values
\* ------------------------------------------------------------------------

NoValue == "none"

Ok(v) == [tag |-> "Ok", val |-> v, err |-> ""]

Err(e) == [tag |-> "Err", val |-> NoValue, err |-> e]

\* A panic (an unwrap on None) unwinds the process: no value, no Err returned
Panic(e) == [tag |-> "Panic", val |-> NoValue, err |-> e]

IsOk(r) == r.tag = "Ok"

\* ------------------------------------------------------------------------
\* u64::from_str and i32::from_str (core::num)
\* ------------------------------------------------------------------------

ErrEmpty == "cannot parse integer from empty string"

ErrInvalidDigit == "invalid digit found in string"

ErrPosOverflow == "number too large to fit in target type"

ErrNegOverflow == "number too small to fit in target type"

\* One digit of the loop of from_str for u64: InvalidDigit for a byte that is
\* no digit, PosOverflow when result * 10 + digit leaves 64 bits
U64Step(acc, c) ==
    IF ~IsOk(acc) THEN acc
    ELSE IF ~IsDigit(c) THEN Err(ErrInvalidDigit)
    ELSE LET r == MulAdd(acc.val, 10, DigitOf(c))
         IN  IF r[U64Limbs + 1] # 0 THEN Err(ErrPosOverflow)
             ELSE Ok(SubSeq(r, 1, U64Limbs))

RECURSIVE U64Range(_, _, _, _)
U64Range(s, lo, hi, acc) ==
    IF lo > hi THEN acc
    ELSE IF lo = hi THEN U64Step(acc, CharAt(s, lo))
    ELSE LET mid  == (lo + hi) \div 2
             left == U64Range(s, lo, mid, acc)
         IN  IF IsOk(left) THEN U64Range(s, mid + 1, hi, left) ELSE left

\* An unsigned type takes a leading "+" and no "-"; a sign alone is no number
u64_from_str(s) ==
    IF Len(s) = 0 THEN Err(ErrEmpty)
    ELSE IF Len(s) = 1 /\ s \in {"+", "-"} THEN Err(ErrInvalidDigit)
    ELSE U64Range(s, IF CharAt(s, 1) = "+" THEN 2 ELSE 1, Len(s),
                  Ok(Zero(U64Limbs)))

MaxI32 == 2147483647

MinI32 == (0 - MaxI32) - 1

\* The digits of a signed type: checked_mul then checked_add for a positive
\* number, checked_sub for a negative one
RECURSIVE I32Digits(_, _, _, _)
I32Digits(s, i, acc, positive) ==
    IF i > Len(s) THEN Ok(acc)
    ELSE IF ~IsDigit(CharAt(s, i)) THEN Err(ErrInvalidDigit)
    ELSE LET d == DigitOf(CharAt(s, i))
         IN  IF positive
             THEN IF acc > MaxI32 \div 10 \/ acc * 10 > MaxI32 - d
                  THEN Err(ErrPosOverflow)
                  ELSE I32Digits(s, i + 1, acc * 10 + d, positive)
             ELSE IF acc < 0 - (MaxI32 \div 10) \/ acc * 10 < MinI32 + d
                  THEN Err(ErrNegOverflow)
                  ELSE I32Digits(s, i + 1, acc * 10 - d, positive)

i32_from_str(s) ==
    IF Len(s) = 0 THEN Err(ErrEmpty)
    ELSE IF Len(s) = 1 /\ s \in {"+", "-"} THEN Err(ErrInvalidDigit)
    ELSE IF CharAt(s, 1) = "+" THEN I32Digits(s, 2, 0, TRUE)
    ELSE IF CharAt(s, 1) = "-" THEN I32Digits(s, 2, 0, FALSE)
    ELSE I32Digits(s, 1, 0, TRUE)

\* ------------------------------------------------------------------------
\* U256::from_dec_str and Display for U256
\* ------------------------------------------------------------------------

\* One byte of the loop of from_dec_str on the result so far: a byte that is
\* no digit is InvalidCharacter; an overflow of res * 10 + digit past 256
\* bits is InvalidLength; an error already returned stays.
FromDecStrStep(acc, c) ==
    IF ~IsOk(acc) THEN acc
    ELSE IF ~IsDigit(c) THEN Err("InvalidCharacter")
    ELSE LET r == MulAdd(acc.val, 10, DigitOf(c))
         IN  IF r[U256Limbs + 1] # 0 THEN Err("InvalidLength")
             ELSE Ok(SubSeq(r, 1, U256Limbs))

\* The loop over the bytes lo..hi of s, in order (split in halves to keep the
\* evaluation shallow)
RECURSIVE FromDecStrRange(_, _, _, _)
FromDecStrRange(s, lo, hi, acc) ==
    IF lo > hi THEN acc
    ELSE IF lo = hi THEN FromDecStrStep(acc, CharAt(s, lo))
    ELSE LET mid  == (lo + hi) \div 2
             left == FromDecStrRange(s, lo, mid, acc)
         IN  IF IsOk(left) THEN FromDecStrRange(s, mid + 1, hi, left) ELSE left

\* A parser that holds the amount in 64 bits
U256_from_dec_str_u64(s) == U64Range(s, 1, Len(s), Ok(Zero(U64Limbs)))

U256_from_dec_str(s) == FromDecStrRange(s, 1, Len(s), Ok(Zero(U256Limbs)))

\* One round of the loop of Display: the next digit is current % 10, then
\* current /= 10; the loop has ended once current is zero.
FmtStep(st) ==
    IF st.done THEN st
    ELSE LET qr == DivSmall(st.current, 10)
         IN  [current |-> qr[1], buf |-> DigitChar(qr[2]) \o st.buf,
              done |-> IsZero(qr[1])]

RECURSIVE FmtRounds(_, _)
FmtRounds(n, st) ==
    IF n = 0 THEN st
    ELSE IF n = 1 THEN FmtStep(st)
    ELSE LET half == FmtRounds(n \div 2, st)
         IN  IF half.done THEN half ELSE FmtRounds(n - n \div 2, half)

\* A value of k limbs has fewer than 5 * k decimal digits
DecString(x) ==
    FmtRounds(5 * Len(x), [current |-> x, buf |-> "", done |-> FALSE]).buf

U256_fmt(x) == IF IsZero(x) THEN "0" ELSE DecString(x)

\* ------------------------------------------------------------------------
\* unix_to_datetime and the "%Y/%m/%d %H:%M:%S" format of chrono
\* ------------------------------------------------------------------------

\* The last day chrono's NaiveDate holds (+262143-12-31), in days since
\* 1970-01-01
ChronoMaxDays == 95026601

\* The limbs of a number below 2^31 as an integer
LimbsFitInt(x) == x[2] < LimbBase \div 2 /\ \A i \in 3..Len(x) : x[i] = 0

LimbsToInt(x) == x[1] + x[2] * LimbBase

\* Duration::from_millis splits the milliseconds in seconds and a rest;
\* DateTime::<Utc>::from(SystemTime) unwraps timestamp_opt, which is None
\* past the last day chrono holds.
unix_to_datetime(timestamp) ==
    LET ms == u64_from_str(timestamp)
    IN  IF ~IsOk(ms) THEN ms
        ELSE LET secs  == DivSmall(ms.val, 1000)
                 mins  == DivSmall(secs[1], 60)
                 hours == DivSmall(mins[1], 60)
                 days  == DivSmall(hours[1], 24)
             IN  IF ~LimbsFitInt(days[1]) \/ LimbsToInt(days[1]) > ChronoMaxDays
                 THEN Panic("No such local time")
                 ELSE Ok([days   |-> LimbsToInt(days[1]),
                          hour   |-> days[2],
                          minute |-> hours[2],
                          second |-> mins[2],
                          millis |-> secs[2]])

\* The decimal digits of a natural number
RECURSIVE NatToString(_)
NatToString(n) ==
    IF n < 10 THEN DigitChar(n)
    ELSE NatToString(n \div 10) \o DigitChar(n % 10)

RECURSIVE PadZero(_, _)
PadZero(s, width) == IF Len(s) >= width THEN s ELSE PadZero("0" \o s, width)

\* The proleptic Gregorian date of a day number counted from 1970-01-01
CivilFromDays(days) ==
    LET z   == days + 719468
        era == z \div 146097
        doe == z - era * 146097
        yoe == (doe - doe \div 1460 + doe \div 36524 - doe \div 146096) \div 365
        doy == doe - (365 * yoe + yoe \div 4 - yoe \div 100)
        mp  == (5 * doy + 2) \div 153
        d   == doy - (153 * mp + 2) \div 5 + 1
        m   == IF mp < 10 THEN mp + 3 ELSE mp - 9
        y   == yoe + era * 400 + (IF m <= 2 THEN 1 ELSE 0)
    IN  [year |-> y, month |-> m, day |-> d]

\* %Y is four digits, and signed past year 9999
FormatYear(y) ==
    IF y <= 9999 THEN PadZero(NatToString(y), 4) ELSE "+" \o NatToString(y)

FormatDateTime(dt) ==
    LET c == CivilFromDays(dt.days)
    IN  FormatYear(c.year) \o "/" \o PadZero(NatToString(c.month), 2) \o "/"
        \o PadZero(NatToString(c.day), 2) \o " "
        \o PadZero(NatToString(dt.hour), 2) \o ":"
        \o PadZero(NatToString(dt.minute), 2) \o ":"
        \o PadZero(NatToString(dt.second), 2)

\* ------------------------------------------------------------------------
\* Domain value parsers: Action, State, TokenType (exact string match)
\* ------------------------------------------------------------------------

Action_from_str(input) ==
    IF input = "mint" THEN Ok("Mint")
    ELSE IF input = "transfer" THEN Ok("Transfer")
    ELSE Err("Unknown action: " \o input)

\* A state parser that folds the case of the first letter
State_from_str_casefold(input) ==
    IF input \in {"success", "Success"} THEN Ok("Success")
    ELSE Err("Unknown state: " \o input)

State_from_str(input) ==
    IF input = "success" THEN Ok("Success")
    ELSE Err("Unknown state: " \o input)

TokenType_from_str(input) ==
    IF input = "BRC20" THEN Ok("BRC20")
    ELSE Err("Unknown token type: " \o input)

\* Display of Category
Category_fmt(category) == IF category = "Buy" THEN "buy" ELSE "mint"

\* ------------------------------------------------------------------------
\* process_inscription
\* ------------------------------------------------------------------------

\* The fields of struct Inscription of type String, each with the field of
\* InscriptionRaw it is cloned from
ClonedFields ==
    { <<"from_address", "fromAddress">>, <<"inscription_id", "inscriptionId">>,
      <<"to_address", "toAddress">>, <<"token", "token">>, <<"tx_id", "txId">> }

\* process_inscription with the status checked before the amount
process_inscription_state_first(raw) ==
    LET action     == Action_from_str(raw.actionType)
        state      == State_from_str(raw.state)
        amount     == U256_from_dec_str(raw.amount)
        date_time  == unix_to_datetime(raw.time)
        token_type == TokenType_from_str(raw.tokenType)
    IN  IF ~IsOk(action) THEN action
        ELSE IF ~IsOk(state) THEN state
        ELSE IF ~IsOk(amount) THEN amount
        ELSE IF ~IsOk(date_time) THEN date_time
        ELSE IF ~IsOk(token_type) THEN token_type
        ELSE Ok([action         |-> action.val,
                 amount         |-> amount.val,
                 date_time      |-> date_time.val,
                 from_address   |-> raw.fromAddress,
                 inscription_id |-> raw.inscriptionId,
                 state          |-> state.val,
                 to_address     |-> raw.toAddress,
                 token          |-> raw.token,
                 token_type     |-> token_type.val,
                 tx_id          |-> raw.txId])

\* Each `?` returns the first failure; a panic in unix_to_datetime unwinds
\* at the same place.
process_inscription(raw) ==
    LET action     == Action_from_str(raw.actionType)
        amount     == U256_from_dec_str(raw.amount)
        date_time  == unix_to_datetime(raw.time)
        state      == State_from_str(raw.state)
        token_type == TokenType_from_str(raw.tokenType)
    IN  IF ~IsOk(action) THEN action
        ELSE IF ~IsOk(amount) THEN amount
        ELSE IF ~IsOk(date_time) THEN date_time
        ELSE IF ~IsOk(state) THEN state
        ELSE IF ~IsOk(token_type) THEN token_type
        ELSE Ok([action         |-> action.val,
                 amount         |-> amount.val,
                 date_time      |-> date_time.val,
                 from_address   |-> raw.fromAddress,
                 inscription_id |-> raw.inscriptionId,
                 state          |-> state.val,
                 to_address     |-> raw.toAddress,
                 token          |-> raw.token,
                 token_type     |-> token_type.val,
                 tx_id          |-> raw.txId])

\* ------------------------------------------------------------------------
\* process_pagination and process_response
\* ------------------------------------------------------------------------

\* collect::<Result<Vec<_>, _>>() over the mapped records from the i-th on:
\* the first failure, or all the values in order
RECURSIVE CollectFrom(_, _)
CollectFrom(list, i) ==
    IF i > Len(list) THEN Ok(<<>>)
    ELSE LET head == process_inscription(list[i])
         IN  IF ~IsOk(head) THEN head
             ELSE LET rest == CollectFrom(list, i + 1)
                  IN  IF ~IsOk(rest) THEN rest
                      ELSE Ok(<<head.val>> \o rest.val)

\* The same walk that drops a record that fails and goes on
RECURSIVE CollectSkipping(_, _)
CollectSkipping(list, i) ==
    IF i > Len(list) THEN Ok(<<>>)
    ELSE LET head == process_inscription(list[i])
             rest == CollectSkipping(list, i + 1)
         IN  IF ~IsOk(head) THEN rest ELSE Ok(<<head.val>> \o rest.val)

process_pagination_skipping(raw) ==
    LET records      == CollectSkipping(raw.inscriptionsList, 1)
        pageNo       == i32_from_str(raw.page)
        totalPages   == i32_from_str(raw.totalPage)
    IN  IF ~IsOk(pageNo) THEN pageNo
        ELSE IF ~IsOk(totalPages) THEN totalPages
        ELSE Ok([inscriptions |-> records.val,
                 page         |-> pageNo.val,
                 total_pages  |-> totalPages.val])

process_pagination(raw) ==
    LET records      == CollectFrom(raw.inscriptionsList, 1)
        pageNo       == i32_from_str(raw.page)
        totalPages   == i32_from_str(raw.totalPage)
    IN  IF ~IsOk(records) THEN records
        ELSE IF ~IsOk(pageNo) THEN pageNo
        ELSE IF ~IsOk(totalPages) THEN totalPages
        ELSE Ok([inscriptions |-> records.val,
                 page         |-> pageNo.val,
                 total_pages  |-> totalPages.val])

\* process_response reading the last block of data
process_response_last(raw) ==
    IF Len(raw.data) = 0 THEN Err("No Pagination found")
    ELSE process_pagination(raw.data[Len(raw.data)])

\* raw.data.get(0).ok_or("No Pagination found").map(process_pagination)??
process_response(raw) ==
    IF Len(raw.data) = 0 THEN Err("No Pagination found")
    ELSE process_pagination(raw.data[1])

\* ------------------------------------------------------------------------
\* to_csv_row and the records write_csv writes
\* ------------------------------------------------------------------------

\* to_csv_row that labels a transfer by its action
to_csv_row_action_label(inscription) ==
    [timestamp     |-> FormatDateTime(inscription.date_time),
     category      |-> IF inscription.action = "Mint" THEN "mint" ELSE "transfer",
     base_currency |-> inscription.token,
     base_amount   |-> U256_fmt(inscription.amount),
     from          |-> inscription.from_address,
     to            |-> inscription.to_address,
     hash          |-> inscription.tx_id,
     description   |-> inscription.token_type \o " " \o inscription.action
                       \o " with inscription_id " \o inscription.inscription_id]

to_csv_row(inscription) ==
    LET category == IF inscription.action = "Mint" THEN "Mint" ELSE "Buy"
    IN  [timestamp     |-> FormatDateTime(inscription.date_time),
         category      |-> Category_fmt(category),
         base_currency |-> inscription.token,
         base_amount   |-> U256_fmt(inscription.amount),
         from          |-> inscription.from_address,
         to            |-> inscription.to_address,
         hash          |-> inscription.tx_id,
         description   |-> inscription.token_type \o " " \o inscription.action
                           \o " with inscription_id " \o inscription.inscription_id]

CsvHeader ==
    << "Timestamp (UTC)", "Type", "Base Currency", "Base Amount",
       "Quote Currency", "Quote Amount", "Fee Currency", "Fee Amount",
       "From", "To", "Blockchain", "ID", "Description" >>

\* The record write_csv writes for one row
CsvRecord(row) ==
    << row.timestamp, row.category, row.base_currency, row.base_amount,
       "", "", "", "", row.from, row.to, "Bitcoin", row.hash, row.description >>

\* ------------------------------------------------------------------------
\* Bounds and inputs
\* ------------------------------------------------------------------------

\* The largest number of requests of one run of the model
MaxFetch == 3

\* limit=50 in the request's URL
PageLimit == 50

Wallets == {"bc1qwallet", "bc1pother"}

BaseRec ==
    [actionType |-> "mint", amount |-> "1000", fromAddress |-> "from",
     inscriptionId |-> "inscription_id", state |-> "success",
     time |-> "1685092041000", toAddress |-> "to", token |-> "sats",
     tokenType |-> "BRC20", txId |-> "hash"]

MintRec == BaseRec

TransferRec ==
    [BaseRec EXCEPT !.actionType = "transfer", !.amount = "25",
                    !.time = "1688693025000", !.txId = "hash2"]

\* A record whose status differs from "success" by its case only
CapitalRec == [BaseRec EXCEPT !.state = "Success", !.txId = "hash3"]

\* A record of a failed transaction
FailedRec == [BaseRec EXCEPT !.state = "fail", !.txId = "hash4"]

\* A record whose time is u64::MAX milliseconds
LateRec == [BaseRec EXCEPT !.time = "18446744073709551615", !.txId = "hash6"]

DecoyRec == [BaseRec EXCEPT !.txId = "decoy", !.amount = "9"]

\* The inscriptionsList of the pages the server of the walk answers with:
\* empty, one record, two records, and pages with a record that is no success
WalkLists ==
    { <<>>, <<MintRec>>, <<TransferRec, MintRec>>,
      <<MintRec, CapitalRec>>, <<FailedRec, TransferRec>>,
      <<TransferRec, LateRec>> }

RawPage(list, pageStr, totalStr) ==
    [inscriptionsList |-> list, limit |-> "50", page |-> pageStr,
     totalPage |-> totalStr, totalTransaction |-> "0"]

\* "+2" and "2" are one number and two strings
WalkBlocks ==
    { RawPage(l, p, tp) : l \in WalkLists, p \in {"1", "2"},
                          tp \in {"1", "+2", "x"} }

\* A second block of data, which says the walk is over
DecoyBlock == RawPage(<<DecoyRec>>, "9", "9")

\* What a request can come back with: a body that cannot be read, a body
\* that is no ResponseRaw, or a ResponseRaw of zero, one or two blocks
Responses ==
    { [kind |-> "text_error", data |-> <<>>],
      [kind |-> "bad_json", data |-> <<>>],
      [kind |-> "json", data |-> <<>>] }
    \cup { [kind |-> "json", data |-> <<b>>] : b \in WalkBlocks }
    \cup { [kind |-> "json", data |-> <<b, DecoyBlock>>] : b \in WalkBlocks }

NoResponse == [kind |-> "none", data |-> <<>>]

NoFile == [exists |-> FALSE, records |-> <<>>]

\* ------------------------------------------------------------------------
\* main, fetch_pages, write_csv
\* ------------------------------------------------------------------------

Init ==
    /\ pc = "send"
    /\ wallet \in Wallets
    /\ page = 0
    /\ inscriptions = <<>>
    /\ requests = <<>>
    /\ pages = <<>>
    /\ lastResp = NoResponse
    /\ err = ""
    /\ file = NoFile
    /\ arg = NoValue
    /\ result = NoValue
    /\ csvRow = NoValue

\* A request that carries the zero-based counter itself
RequestFor_zero_based(address, p) ==
    [page |-> p, limit |-> PageLimit, address |-> address]

\* The URL of the request: page + 1, limit=50, the wallet
RequestFor(address, p) ==
    [page |-> p + 1, limit |-> PageLimit, address |-> address]

\* An accumulator that puts the new page first
Extend_prepend(acc, items) == items \o acc

\* inscriptions.extend(pagination.inscriptions)
Extend(acc, items) == acc \o items

\* A walk that also stops at an empty page
PageDone_or_empty(pagination) ==
    pagination.page = pagination.total_pages \/ pagination.inscriptions = <<>>

\* pagination.page == pagination.total_pages
PageDone(pagination) == pagination.page = pagination.total_pages

\* res.text()?, serde_json::from_str(&body)?, process_response(&raw)?
FetchResult(resp) ==
    IF resp.kind = "text_error" THEN Err("error decoding response body")
    ELSE IF resp.kind = "bad_json" THEN Err("expected value at line 1 column 1")
    ELSE process_response(resp)

\* FetchResult and to_csv_row over the inputs of the walk, evaluated once
FetchTable == [resp \in Responses |-> FetchResult(resp)]

WalkInscriptions ==
    UNION { { FetchTable[resp].val.inscriptions[i] :
                i \in 1..Len(FetchTable[resp].val.inscriptions) } :
            resp \in { r \in Responses : IsOk(FetchTable[r]) } }

RowTable == [i \in WalkInscriptions |-> to_csv_row(i)]

\* fetch_pages up to send(): the request goes out, or send fails
Send ==
    /\ pc = "send"
    /\ Len(requests) < MaxFetch
    /\ requests' = Append(requests, RequestFor(wallet, page))
    /\ \E sent \in BOOLEAN :
          IF sent
          THEN pc' = "receive" /\ err' = err
          ELSE pc' = "failed" /\ err' = "error sending request"
    /\ UNCHANGED <<wallet, page, inscriptions, pages, lastResp, file, arg,
                   result, csvRow>>

\* fetch_pages from res.text() on: read, decode, normalise, extend, then
\* return or call fetch_pages with page + 1
Receive ==
    /\ pc = "receive"
    /\ \E resp \in Responses :
          LET pagination == FetchTable[resp]
          IN  /\ lastResp' = resp
              /\ IF ~IsOk(pagination)
                 THEN /\ pc' = "failed"
                      /\ err' = pagination.err
                      /\ UNCHANGED <<page, inscriptions, pages>>
                 ELSE /\ inscriptions' =
                            Extend(inscriptions, pagination.val.inscriptions)
                      /\ pages' = Append(pages, resp.data[1])
                      /\ err' = err
                      /\ IF PageDone(pagination.val)
                         THEN pc' = "write_open" /\ page' = page
                         ELSE pc' = "send" /\ page' = page + 1
    /\ UNCHANGED <<wallet, requests, file, arg, result, csvRow>>

\* write_csv up to the header: the directory, the file, the header record
WriteCsvOpen ==
    /\ pc = "write_open"
    /\ \E ok \in BOOLEAN :
          IF ok
          THEN /\ file' = [exists |-> TRUE, records |-> <<CsvHeader>>]
               /\ pc' = "write_rows"
               /\ err' = err
          ELSE /\ file' = file
               /\ pc' = "failed"
               /\ err' = "io error"
    /\ UNCHANGED <<wallet, page, inscriptions, requests, pages, lastResp,
                   arg, result, csvRow>>

\* One round of the loop of write_csv: the next inscription's record
WriteCsvRow ==
    /\ pc = "write_rows"
    /\ Len(file.records) - 1 < Len(inscriptions)
    /\ \E ok \in BOOLEAN :
          IF ok
          THEN /\ file' = [file EXCEPT !.records =
                     Append(@, CsvRecord(RowTable[inscriptions[Len(@)]]))]
               /\ pc' = pc
               /\ err' = err
          ELSE /\ file' = file
               /\ pc' = "failed"
               /\ err' = "io error"
    /\ UNCHANGED <<wallet, page, inscriptions, requests, pages, lastResp,
                   arg, result, csvRow>>

\* writer.flush()? and the return of write_csv and of main
WriteCsvFlush ==
    /\ pc = "write_rows"
    /\ Len(file.records) - 1 = Len(inscriptions)
    /\ \E ok \in BOOLEAN :
          IF ok
          THEN pc' = "done" /\ err' = err
          ELSE pc' = "failed" /\ err' = "io error"
    /\ UNCHANGED <<wallet, page, inscriptions, requests, pages, lastResp,
                   file, arg, result, csvRow>>

Next == Send \/ Receive \/ WriteCsvOpen \/ WriteCsvRow \/ WriteCsvFlush

Spec == Init /\ [][Next]_vars

\* ------------------------------------------------------------------------
\* process_inscription and to_csv_row on one raw record
\* ------------------------------------------------------------------------

\* 2^64, 2^256 - 1 and 2^256
TwoPow64 == "18446744073709551616"

U256MaxDec ==
    "115792089237316195423570985008687907853269984665640564039457584007913129639935"

TwoPow256 ==
    "115792089237316195423570985008687907853269984665640564039457584007913129639936"

ActionStrs == {"mint", "transfer", "Mint", "burn"}

AmountStrs ==
    {"1000", "0", "", "007", TwoPow64, U256MaxDec, TwoPow256, "-5", "12a", "1.5"}

\* The last one is u64::MAX, the one before is 2^64
TimeStrs ==
    {"1685092041000", "1688693025000", "", "16850x", TwoPow64,
     "18446744073709551615"}

StateStrs == {"success", "Success", "fail", " success"}

TokenTypeStrs == {"BRC20", "brc20", "ORC20"}

RawRecords ==
    { [BaseRec EXCEPT !.actionType = a, !.amount = m, !.time = t,
                      !.state = s, !.tokenType = k] :
        a \in ActionStrs, m \in AmountStrs, t \in TimeStrs, s \in StateStrs,
        k \in TokenTypeStrs }

InitRecord ==
    /\ pc = "record"
    /\ arg \in RawRecords
    /\ result = NoValue
    /\ csvRow = NoValue
    /\ wallet = NoValue
    /\ page = 0
    /\ inscriptions = <<>>
    /\ requests = <<>>
    /\ pages = <<>>
    /\ lastResp = NoResponse
    /\ err = ""
    /\ file = NoFile

\* process_inscription(&raw)
NormalizeRecord ==
    /\ pc = "record"
    /\ result' = process_inscription(arg)
    /\ pc' = "normalized"
    /\ UNCHANGED <<wallet, page, inscriptions, requests, pages, lastResp, err,
                   file, arg, csvRow>>

\* to_csv_row(inscription) on the Inscription that came out
ProjectRow ==
    /\ pc = "normalized"
    /\ IsOk(result)
    /\ csvRow' = to_csv_row(result.val)
    /\ pc' = "projected"
    /\ UNCHANGED <<wallet, page, inscriptions, requests, pages, lastResp, err,
                   file, arg, result>>

NextRecord == NormalizeRecord \/ ProjectRow

SpecRecord == InitRecord /\ [][NextRecord]_vars

\* ------------------------------------------------------------------------
\* process_pagination on one raw page
\* ------------------------------------------------------------------------

BadActionRec == [BaseRec EXCEPT !.actionType = "burn", !.txId = "hash5"]

PageLists ==
    { <<>>, <<MintRec>>, <<TransferRec, MintRec>>, <<MintRec, CapitalRec>>,
      <<FailedRec, TransferRec>>, <<MintRec, BadActionRec, FailedRec>>,
      <<TransferRec, MintRec, TransferRec>>, <<MintRec, LateRec>> }

CounterStrs ==
    {"1", "2", "+2", "007", "-1", "0", "", "x", "1.0", "2147483647",
     "2147483648", "-2147483648"}

RawPaginations ==
    { RawPage(l, p, tp) : l \in PageLists, p \in CounterStrs,
                          tp \in CounterStrs }

InitPage ==
    /\ pc = "page"
    /\ arg \in RawPaginations
    /\ result = NoValue
    /\ csvRow = NoValue
    /\ wallet = NoValue
    /\ page = 0
    /\ inscriptions = <<>>
    /\ requests = <<>>
    /\ pages = <<>>
    /\ lastResp = NoResponse
    /\ err = ""
    /\ file = NoFile

\* process_pagination(&raw)
NormalizePage ==
    /\ pc = "page"
    /\ result' = process_pagination(arg)
    /\ pc' = "normalized"
    /\ UNCHANGED <<wallet, page, inscriptions, requests, pages, lastResp, err,
                   file, arg, csvRow>>

NextPage == NormalizePage

SpecPage == InitPage /\ [][NextPage]_vars

\* ------------------------------------------------------------------------
\* What the properties are stated with: the validity of a raw field, told
\* from its characters alone
\* ------------------------------------------------------------------------

Min(S) == CHOOSE m \in S : \A n \in S : m <= n

AllDigits(s) == \A i \in 1..Len(s) : IsDigit(CharAt(s, i))

\* s without its leading zeros
StripZeros(s) ==
    LET nz == { i \in 1..Len(s) : CharAt(s, i) # "0" }
    IN  IF nz = {} THEN "" ELSE SubSeq(s, Min(nz), Len(s))

\* s <= t for two strings of digits without leading zeros
DecLeq(s, t) ==
    \/ Len(s) < Len(t)
    \/ /\ Len(s) = Len(t)
       /\ LET diff == { i \in 1..Len(s) : CharAt(s, i) # CharAt(t, i) }
          IN  \/ diff = {}
              \/ DigitOf(CharAt(s, Min(diff))) < DigitOf(CharAt(t, Min(diff)))

Unsigned(s) ==
    IF Len(s) >= 1 /\ CharAt(s, 1) \in {"+", "-"} THEN SubSeq(s, 2, Len(s))
    ELSE s

IsNegative(s) == Len(s) >= 1 /\ CharAt(s, 1) = "-"

\* A decimal integer: at least one digit and nothing else
IsDecimalInteger(s) == Len(s) >= 1 /\ AllDigits(s)

\* Digits only, and a value of at most 2^256 - 1
IsAmount(s) == AllDigits(s) /\ DecLeq(StripZeros(s), U256MaxDec)

\* A number of milliseconds that fits u64
IsU64(s) ==
    /\ ~IsNegative(s)
    /\ IsDecimalInteger(Unsigned(s))
    /\ DecLeq(StripZeros(Unsigned(s)), "18446744073709551615")

\* The last millisecond of +262143-12-31
ChronoMaxMillis == "8210298412799999"

\* A u64 number of milliseconds that chrono's DateTime holds
IsTimestamp(s) ==
    IsU64(s) /\ DecLeq(StripZeros(Unsigned(s)), ChronoMaxMillis)

\* An integer that fits i32
IsI32(s) ==
    /\ IsDecimalInteger(Unsigned(s))
    /\ DecLeq(StripZeros(Unsigned(s)),
              IF IsNegative(s) THEN "2147483648" ELSE "2147483647")

\* The number a counter string denotes, as its sign and significant digits
CounterValue(s) ==
    [negative |-> IsNegative(s) /\ StripZeros(Unsigned(s)) # "",
     digits   |-> StripZeros(Unsigned(s))]

ReportedDone(block) == CounterValue(block.page) = CounterValue(block.totalPage)

ValidRecord(r) ==
    /\ r.actionType \in {"mint", "transfer"}
    /\ IsAmount(r.amount)
    /\ IsTimestamp(r.time)
    /\ r.state = "success"
    /\ r.tokenType = "BRC20"

ValidPage(block) ==
    /\ \A i \in 1..Len(block.inscriptionsList) :
          ValidRecord(block.inscriptionsList[i])
    /\ IsI32(block.page)
    /\ IsI32(block.totalPage)

\* process_inscription over the records of the walk's pages, as an explicit
\* function (f @@ <<>> is f with its values enumerated)
WalkRecords ==
    UNION { { l[i] : i \in 1..Len(l) } : l \in WalkLists } \cup {DecoyRec}

InscriptionTable == [r \in WalkRecords |-> process_inscription(r)] @@ <<>>

\* The Inscriptions of a list of raw records, one per record, in order
ExpectedInscriptions(list) ==
    [i \in 1..Len(list) |-> InscriptionTable[list[i]].val]

\* The Inscriptions of the first k pages received, in page order
RECURSIVE ExpectedUpTo(_)
ExpectedUpTo(k) ==
    IF k = 0 THEN <<>>
    ELSE ExpectedUpTo(k - 1) \o ExpectedInscriptions(pages[k].inscriptionsList)

RECURSIVE RecordCountUpTo(_)
RecordCountUpTo(k) ==
    IF k = 0 THEN 0
    ELSE RecordCountUpTo(k - 1) + Len(pages[k].inscriptionsList)

\* fetch_pages has returned Ok to main
FetchReturned ==
    \/ pc \in {"write_open", "write_rows", "done"}
    \/ pc = "failed" /\ err = "io error"

\* fetch_pages has returned an error to main, or has panicked
FetchFailed == pc = "failed" /\ err # "io error"

\* ------------------------------------------------------------------------
\* Properties of the walk
\* ------------------------------------------------------------------------

\* C1: when the K-th response is the first whose page equals its totalPage
\* and every page normalises, fetch_pages has sent exactly K requests and
\* returned the Inscriptions of pages 1..K, in page order and in the order of
\* each page; their number is the sum of the K record counts.
C1_PaginationAccumulates ==
    LET K == Len(pages)
    IN  /\ \A k \in 1..(K - 1) : ~ReportedDone(pages[k])
        /\ (K >= 1 /\ ReportedDone(pages[K])) =>
              /\ FetchReturned
              /\ Len(requests) = K
              /\ inscriptions = ExpectedUpTo(K)
              /\ Len(inscriptions) = RecordCountUpTo(K)

C1_Witness ==
    /\ pc = "done"
    /\ Len(pages) = 3
    /\ pages[1].inscriptionsList = <<TransferRec, MintRec>>
    /\ pages[2].inscriptionsList = <<MintRec>>
    /\ pages[3].inscriptionsList = <<TransferRec, MintRec>>
    /\ Len(inscriptions) = 5

\* What a response is when fetch_pages cannot take it: unreadable, no
\* ResponseRaw, without a block, or with a first block that is no valid page
BadResponse(resp) ==
    \/ resp.kind \in {"text_error", "bad_json"}
    \/ Len(resp.data) = 0
    \/ ~ValidPage(resp.data[1])

\* C2: a failure of the request, the decoding or the normalisation at fetch M
\* ends the run with that error: no request follows, write_csv never starts,
\* no file and no row is written; and a file exists only after the whole walk
\* has ended successfully, every record of every page being valid.
C2_AllOrNothing ==
    /\ (pc \in {"send", "receive"} \/ FetchFailed) => file = NoFile
    /\ (lastResp.kind # "none" /\ BadResponse(lastResp)) =>
          /\ FetchFailed
          /\ err # ""
          /\ Len(requests) = Len(pages) + 1
    /\ FetchFailed => ~ENABLED Next
    /\ file.exists =>
          /\ Len(pages) >= 1
          /\ Len(requests) = Len(pages)
          /\ ReportedDone(pages[Len(pages)])
          /\ \A k \in 1..Len(pages) : ValidPage(pages[k])

C2_Witness ==
    /\ FetchFailed
    /\ Len(requests) = 3
    /\ Len(pages) = 2
    /\ Len(inscriptions) = 3
    /\ lastResp.kind = "json"
    /\ Len(lastResp.data) = 1
    /\ lastResp.data[1].inscriptionsList = <<MintRec, CapitalRec>>
    /\ file = NoFile

\* C3: after a fetch that did not fail the walk returns exactly when the
\* page's reported page number equals its reported totalPage, whatever the
\* page holds (an empty page included); otherwise the counter goes up by one
\* and the next request is due; as long as no page reported page = totalPage
\* and nothing failed, the walk goes on.
C3_TerminationByCounters ==
    /\ [][ (pc = "receive" /\ pc' # "failed") =>
              /\ pc' = "write_open" <=> ReportedDone(lastResp'.data[1])
              /\ pc' # "write_open" => (pc' = "send" /\ page' = page + 1)
         ]_vars
    /\ []( (pc # "failed" /\ \A k \in 1..Len(pages) : ~ReportedDone(pages[k]))
              => /\ pc \in {"send", "receive"}
                 /\ (pc = "send" /\ Len(requests) < MaxFetch) => ENABLED Send )

C3_Witness ==
    /\ pc = "receive"
    /\ Len(requests) = 3
    /\ Len(pages) = 2
    /\ pages[1].inscriptionsList = <<>>
    /\ pages[1].page = "2"
    /\ pages[1].totalPage = "1"
    /\ pages[2].inscriptionsList = <<>>

\* C4: the k-th request asks for page k with limit 50 and the wallet; the
\* page number is the local counter plus one, whatever page the server
\* reported; a request is sent only once every response before it has been
\* normalised and appended.
C4_SequentialRequests ==
    /\ \A k \in 1..Len(requests) :
          requests[k] = [page |-> k, limit |-> 50, address |-> wallet]
    /\ Len(requests) \in {Len(pages), Len(pages) + 1}
    /\ pc = "receive" => Len(requests) = Len(pages) + 1
    /\ pc = "send" => (page = Len(pages) /\ Len(requests) = Len(pages))
    /\ pc \in {"send", "receive"} => inscriptions = ExpectedUpTo(Len(pages))

C4_Witness ==
    /\ pc = "receive"
    /\ Len(requests) = 3
    /\ requests[3].page = 3
    /\ pages[1].page = "2"
    /\ pages[2].page = "1"
    /\ Len(inscriptions) = 3

\* The raw records of the pages taken so far, in order
RECURSIVE AcceptedRaw(_)
AcceptedRaw(k) ==
    IF k = 0 THEN <<>> ELSE AcceptedRaw(k - 1) \o pages[k].inscriptionsList

\* C5: a page with a record whose state is not exactly "success" fails, and
\* every Inscription of the accumulator and every row written comes from a
\* raw record whose state was "success".
C5_OnlySuccess ==
    LET raws == AcceptedRaw(Len(pages))
    IN  /\ ( /\ lastResp.kind = "json"
             /\ Len(lastResp.data) >= 1
             /\ \E i \in 1..Len(lastResp.data[1].inscriptionsList) :
                   lastResp.data[1].inscriptionsList[i].state # "success" )
           => FetchFailed
        /\ Len(inscriptions) = Len(raws)
        /\ \A i \in 1..Len(raws) :
              /\ raws[i].state = "success"
              /\ inscriptions[i].tx_id = raws[i].txId
              /\ inscriptions[i].state = "Success"
        /\ \A j \in 2..Len(file.records) :
              file.records[j][12] = raws[j - 1].txId

C5_Witness ==
    /\ FetchFailed
    /\ err = "Unknown state: Success"
    /\ Len(pages) = 1
    /\ Len(inscriptions) = 2
    /\ lastResp.data[1].inscriptionsList = <<MintRec, CapitalRec>>

\* C8 as stated: the message of the error for an empty data array is
\* "no pagination found"
C8_Original ==
    [][ (pc = "receive" /\ lastResp'.kind = "json" /\ Len(lastResp'.data) = 0)
           => (pc' = "failed" /\ err' = "no pagination found") ]_vars

\* C8: only the first block of data is normalised: a second block adds no
\* record and decides nothing; with an empty data array the fetch fails with
\* "No Pagination found" and nothing is appended.
C8_FirstBlockOnly ==
    [][ pc = "receive" =>
          /\ (lastResp'.kind = "json" /\ Len(lastResp'.data) = 0) =>
                /\ pc' = "failed"
                /\ err' = "No Pagination found"
                /\ inscriptions' = inscriptions
                /\ pages' = pages
          /\ (lastResp'.kind = "json" /\ Len(lastResp'.data) = 2) =>
                IF ValidPage(lastResp'.data[1])
                THEN /\ inscriptions' = inscriptions \o
                          ExpectedInscriptions(lastResp'.data[1].inscriptionsList)
                     /\ pc' = "write_open" <=> ReportedDone(lastResp'.data[1])
                ELSE pc' = "failed" /\ inscriptions' = inscriptions
      ]_vars

C8_Witness ==
    /\ pc = "failed"
    /\ err = "No Pagination found"
    /\ lastResp = [kind |-> "json", data |-> <<>>]
    /\ Len(pages) = 2
    /\ Len(inscriptions) = 3

\* C9: the file starts with the header; its i-th data row is the projection
\* of the i-th Inscription of the accumulator: "mint" for Mint and "buy" for
\* Transfer, empty Quote and Fee columns, "Bitcoin" as Blockchain; when
\* write_csv has returned there are exactly N data rows.
C9_CsvProjection ==
    file.exists =>
        /\ file.records[1] =
              << "Timestamp (UTC)", "Type", "Base Currency", "Base Amount",
                 "Quote Currency", "Quote Amount", "Fee Currency",
                 "Fee Amount", "From", "To", "Blockchain", "ID",
                 "Description" >>
        /\ Len(file.records) - 1 <= Len(inscriptions)
        /\ pc = "done" => Len(file.records) - 1 = Len(inscriptions)
        /\ \A j \in 2..Len(file.records) :
              LET rec == file.records[j]
                  ins == inscriptions[j - 1]
              IN  /\ Len(rec) = 13
                  /\ rec[2] = (IF ins.action = "Mint" THEN "mint" ELSE "buy")
                  /\ ins.action \in {"Mint", "Transfer"}
                  /\ rec[3] = ins.token
                  /\ rec[5] = "" /\ rec[6] = "" /\ rec[7] = "" /\ rec[8] = ""
                  /\ rec[9] = ins.from_address
                  /\ rec[10] = ins.to_address
                  /\ rec[11] = "Bitcoin"
                  /\ rec[12] = ins.tx_id
                  /\ rec[13] = "BRC20 " \o ins.action
                                \o " with inscription_id " \o ins.inscription_id

C9_Witness ==
    /\ pc = "done"
    /\ Len(inscriptions) = 3
    /\ Len(file.records) = 4
    /\ file.records[2][2] = "buy"
    /\ file.records[2][4] = "25"
    /\ file.records[2][1] = "2023/07/07 01:23:45"
    /\ file.records[3][2] = "mint"
    /\ file.records[3][4] = "1000"

\* ------------------------------------------------------------------------
\* Properties of process_inscription, process_pagination and to_csv_row
\* ------------------------------------------------------------------------

\* The first field, in the order action kind, amount, timestamp, status,
\* token standard, that is not valid; a timestamp is valid when it is a
\* number of milliseconds that fits u64
FirstInvalid(r) ==
    IF r.actionType \notin {"mint", "transfer"} THEN "actionType"
    ELSE IF ~IsAmount(r.amount) THEN "amount"
    ELSE IF ~IsU64(r.time) THEN "time"
    ELSE IF r.state # "success" THEN "state"
    ELSE IF r.tokenType # "BRC20" THEN "tokenType"
    ELSE "none"

\* The errors of one field
ErrorsOf(field, r) ==
    IF field = "actionType" THEN {"Unknown action: " \o r.actionType}
    ELSE IF field = "amount" THEN {"InvalidCharacter", "InvalidLength"}
    ELSE IF field = "time"
    THEN {"cannot parse integer from empty string",
          "invalid digit found in string",
          "number too large to fit in target type"}
    ELSE IF field = "state" THEN {"Unknown state: " \o r.state}
    ELSE {"Unknown token type: " \o r.tokenType}

AllCloned(r, inscription) ==
    \A f \in ClonedFields : inscription[f[1]] = r[f[2]]

\* C6 as stated: the fields are validated in the order action kind, amount,
\* timestamp, status, token standard; the error returned is the one of the
\* first invalid field; an invalid field means no Inscription; with all five
\* valid the Inscription is produced with its string fields copied unchanged.
C6_Original ==
    pc # "record" =>
        IF FirstInvalid(arg) = "none"
        THEN IsOk(result) /\ AllCloned(arg, result.val)
        ELSE /\ result.tag = "Err"
             /\ result.val = NoValue
             /\ result.err \in ErrorsOf(FirstInvalid(arg), arg)

\* What holds of the order of validation: C6 with the five cloned fields, and
\* with a timestamp past chrono's last day counted as a failure of the
\* timestamp, which is a panic and no error returned.
C6_OrderWithPanic ==
    pc # "record" =>
        IF FirstInvalid(arg) = "none" /\ IsTimestamp(arg.time)
        THEN /\ IsOk(result)
             /\ AllCloned(arg, result.val)
             /\ Cardinality(ClonedFields) = 5
        ELSE IF FirstInvalid(arg) \in {"none", "state", "tokenType"}
                /\ ~IsTimestamp(arg.time)
        THEN result = Panic("No such local time")
        ELSE /\ result.tag = "Err"
             /\ result.val = NoValue
             /\ result.err \in ErrorsOf(FirstInvalid(arg), arg)

\* C7: process_pagination succeeds exactly when every record of the page is
\* valid and both counters are integers (of 32 bits); a page that fails
\* yields no record; a page that succeeds yields one Inscription per raw
\* record, in the order of the raw records, and the two counters.
C7_PageAllOrNothing ==
    pc = "normalized" =>
        /\ IsOk(result) <=> ValidPage(arg)
        /\ ~IsOk(result) => result.val = NoValue
        /\ IsOk(result) =>
              /\ Len(result.val.inscriptions) = Len(arg.inscriptionsList)
              /\ \A i \in 1..Len(arg.inscriptionsList) :
                    /\ result.val.inscriptions[i].tx_id =
                          arg.inscriptionsList[i].txId
                    /\ result.val.inscriptions[i].action =
                          (IF arg.inscriptionsList[i].actionType = "mint"
                           THEN "Mint" ELSE "Transfer")
              /\ (result.val.page < 0) = CounterValue(arg.page).negative
              /\ result.val.page > 0 =>
                    NatToString(result.val.page) = CounterValue(arg.page).digits
              /\ result.val.total_pages > 0 =>
                    NatToString(result.val.total_pages) =
                       CounterValue(arg.totalPage).digits

C7_Witness ==
    /\ pc = "normalized"
    /\ arg.inscriptionsList = <<MintRec, BadActionRec, FailedRec>>
    /\ arg.page = "1"
    /\ arg.totalPage = "2"
    /\ result = Err("Unknown action: burn")

AmountError(r) == r.tag = "Err" /\ r.err \in {"InvalidCharacter", "InvalidLength"}

\* C10 as stated: every non-negative decimal-integer string is accepted as an
\* amount; the parser fails only on non-numeric or negative input.
C10_Original ==
    (pc # "record" /\ arg.actionType \in {"mint", "transfer"}) =>
        (AmountError(result) => ~IsDecimalInteger(arg.amount))

\* C10: a string of digits with a value of at most 2^256 - 1 is accepted as
\* an amount, 2^64 included; a string with another character, a sign
\* included, fails (InvalidCharacter) and so does a value of 2^256 or more
\* (InvalidLength); the amount of the row is the exact decimal digits of the
\* string, so a canonical string comes back as it is.
C10_AmountExact ==
    /\ (pc # "record" /\ arg.actionType \in {"mint", "transfer"}) =>
          /\ AmountError(result) <=> ~IsAmount(arg.amount)
          /\ (AmountError(result) /\ result.err = "InvalidCharacter")
                <=> ~AllDigits(arg.amount)
    /\ (pc # "record" /\ ValidRecord(arg)) => IsOk(result)
    /\ pc = "projected" =>
          /\ IsAmount(arg.amount)
          /\ csvRow.base_amount =
                (IF StripZeros(arg.amount) = "" THEN "0"
                 ELSE StripZeros(arg.amount))
          /\ (IsDecimalInteger(arg.amount)
              /\ (arg.amount = "0" \/ CharAt(arg.amount, 1) # "0"))
                => csvRow.base_amount = arg.amount

C10_Witness ==
    /\ pc = "projected"
    /\ arg.amount = "18446744073709551616"
    /\ csvRow.base_amount = "18446744073709551616"

====
